---- MODULE Spec2Model ----
(***************************************************************************)
(* Model of xlink/src/components/desc.world.ts: the DescWorld translator   *)
(* that lays out peptide chains (addPeptide) and resolves cross-link       *)
(* clauses (addCrossLinks) into Residue / Socket / Ball objects handed to  *)
(* a ThreeInterface collaborator.                                          *)
(*                                                                         *)
(* Strings are sequences of one-character strings, so that split, the      *)
(* digit-run match and parseInt are computed as the code computes them.    *)
(* Objects live in a heap indexed by their id; a Socket or Ball holds a    *)
(* REFERENCE to a Matrix4 (the name of the module-level scratch matrix it  *)
(* was constructed with), and the matrix value is read through mats.       *)
(* Lengths are measured in a unit that makes socketLength / 2 an integer;   *)
(* coordinates are exact integers, floating-point rounding is not modelled.*)
(***************************************************************************)
EXTENDS Integers, Sequences, FiniteSets, TLC

\* ---------------------------------------------------------------- bounds
MaxSteps == 4
MaxLen == 2
MaxClauses == 2
MaxWorlds == 2

VARIABLES
  worlds,      \* the DescWorld instances constructed so far
  peptides,    \* peptides[w]: chain name -> sequence of Residue ids
  balls,       \* balls[w]: sequence of Ball ids
  threeWorld,  \* threeWorld[w]: the calls received by w's collaborator, in order
  heap,        \* heap[id]: the Residue / Socket / Ball with that id
  mats,        \* the module-level scratch matrices, by name
  geom,        \* the geometry constants of './constants'
  last,        \* the last call: its arguments, its outcome, the state before it
  steps        \* number of calls made

vars == <<worlds, peptides, balls, threeWorld, heap, mats, geom, last, steps>>

\* -------------------------------------------------------------- constants
\* The radii and lengths imported from './constants'; positive, fixed for the
\* lifetime of the program.
Geometries ==
  { [residueRadius |-> 3, socketRadius |-> 1, socketLength |-> 4, ballRadius |-> 2],
    [residueRadius |-> 1, socketRadius |-> 2, socketLength |-> 2, ballRadius |-> 5] }

residueRadius == geom.residueRadius
socketRadius == geom.socketRadius
socketLength == geom.socketLength
ballRadius == geom.ballRadius

\* ------------------------------------------------------------ characters
Letters == {"A", "B", "G"}
DigitChars == {"0", "1", "2", "3", "4", "5", "6", "7", "8", "9"}

DigitVal(c) ==
  CASE c = "0" -> 0 [] c = "1" -> 1 [] c = "2" -> 2 [] c = "3" -> 3
    [] c = "4" -> 4 [] c = "5" -> 5 [] c = "6" -> 6 [] c = "7" -> 7
    [] c = "8" -> 8 [] c = "9" -> 9

\* ---------------------------------------------------------------- vectors
Vec(x, y, z) == [x |-> x, y |-> y, z |-> z]

\* THREE.Vector3.setX on a clone: a new vector, x replaced
SetX(v, x) == [v EXCEPT !.x = x]

\* --------------------------------------------------------------- matrices
\* A rigid transform: translation pos and a rotation of rot quarter turns
\* about the Z axis (the only rotations this file ever builds).
Identity == [pos |-> Vec(0, 0, 0), rot |-> 0]

\* Matrix4.setPosition: overwrites the translation, keeps the rotation
SetPosition(m, v) == [m EXCEPT !.pos = v]

\* Matrix4.makeRotationAxis(normalVecZ, Math.PI / 2): a pure rotation
MakeRotationZ90 == [pos |-> Vec(0, 0, 0), rot |-> 1]

RECURSIVE RotZ(_, _)
RotZ(v, q) == IF q = 0 THEN v ELSE RotZ(Vec(0 - v.y, v.x, v.z), q - 1)

\* Matrix4.multiplyMatrices(a, b): a * b
MultiplyMatrices(a, b) ==
  LET r == RotZ(b.pos, a.rot)
  IN [pos |-> Vec(a.pos.x + r.x, a.pos.y + r.y, a.pos.z + r.z),
      rot |-> (a.rot + b.rot) % 4]

\* ---------------------------------------------------------------- objects
Residue(name, radius, pos) ==
  [kind |-> "Residue", name |-> name, radius |-> radius, pos |-> pos]

Socket(residueId, radius, length, matrix) ==
  [kind |-> "Socket", residueId |-> residueId, radius |-> radius,
   length |-> length, matrix |-> matrix, isBond |-> FALSE]

Ball(socket1Id, socket2Id, radius, matrix) ==
  [kind |-> "Ball", socket1Id |-> socket1Id, socket2Id |-> socket2Id,
   radius |-> radius, matrix |-> matrix]

\* newID(): nanoid(8), a fresh identifier; the heap index of the new object
newID(h) == Len(h) + 1

\* an entry of the collaborator's log: the call, the id of the object passed
\* and the transform the object holds at the time of the call
Handed(call, id, at) == [call |-> call, id |-> id, at |-> at]

\* ------------------------------------------------------------- addPeptide
\* mutant of ResidueX: the factor 2 of the spacing left out
ResidueX_NoDouble(startPos, i) ==
  startPos.x + (socketLength + residueRadius + ballRadius) * i

\* line 87
ResidueX(startPos, i) ==
  startPos.x + (socketLength + residueRadius + ballRadius) * 2 * i

\* line 93
Socket1X(prevX) == prevX + residueRadius + socketLength \div 2

\* line 96
Socket2X(socket1X) == socket1X + socketLength + ballRadius * 2

\* line 99
BallX(socket1X) == socket1X + socketLength \div 2 + ballRadius

\* Lines 93-102: the two Sockets and the Ball between prevResidue (st.prev)
\* and the residue rid just created.  Every setPosition / makeRotationAxis /
\* multiplyMatrices call writes the module-level matrix it is called on and
\* returns that same matrix, which is what the new object then references.
ConnectStep(st, rid, startPos) ==
  LET socket1X == Socket1X(st.heap[st.prev].pos.x)
      mA1 == SetPosition(st.mats.tempMatrix1, SetX(startPos, socket1X))
      mB1 == MakeRotationZ90
      mC1 == MultiplyMatrices(mA1, mB1)
      s1id == newID(st.heap)
      socket1 == Socket(st.prev, socketRadius, socketLength, "tempMultiMatrix1")
      h2 == Append(st.heap, socket1)
      socket2X == Socket2X(socket1X)
      mA2 == SetPosition(mA1, SetX(startPos, socket2X))
      mB2 == MakeRotationZ90
      mC2 == MultiplyMatrices(mA2, mB2)
      s2id == newID(h2)
      socket2 == Socket(rid, socketRadius, socketLength, "tempMultiMatrix1")
      h3 == Append(h2, socket2)
      ballX == BallX(socket1X)
      mA3 == SetPosition(mA2, SetX(startPos, ballX))
      bid == newID(h3)
      ball == Ball(s1id, s2id, ballRadius, "tempMatrix1")
      h4 == Append(h3, ball)
  IN [st EXCEPT
        !.heap = h4,
        !.mats = [tempMatrix1 |-> mA3, tempMatrix2 |-> mB2,
                  tempMultiMatrix1 |-> mC2],
        !.three = @ \o <<Handed("addSocket", s1id, mC1),
                         Handed("addSocket", s2id, mC2),
                         Handed("addBall", bid, mA3)>>,
        !.balls = Append(@, bid)]

\* One iteration of the forEach callback of addPeptide, for character c at
\* 0-based index i; st.prev is prevResidue (0 while unassigned).
PeptideStep(st, c, i, startPos) ==
  LET residueX == ResidueX(startPos, i)
      rid == newID(st.heap)
      residue == Residue(c, residueRadius, SetX(startPos, residueX))
      st1 == [st EXCEPT
                !.heap = Append(@, residue),
                !.three = Append(@, Handed("addResidue", rid,
                                           SetPosition(Identity, residue.pos))),
                !.peptide = Append(@, rid)]
      st2 == IF st.prev # 0 THEN ConnectStep(st1, rid, startPos) ELSE st1
  IN [st2 EXCEPT !.prev = rid]

\* mutant of PeptideLoop: the last character of the sequence is not visited
RECURSIVE PeptideLoop_StopsEarly(_, _, _, _)
PeptideLoop_StopsEarly(st, sequence, i, startPos) ==
  IF i + 1 >= Len(sequence) THEN st
  ELSE PeptideLoop_StopsEarly(PeptideStep(st, sequence[i + 1], i, startPos),
                              sequence, i + 1, startPos)

\* sequence.split('').forEach(..): the callback on characters i+1 .. of sequence
RECURSIVE PeptideLoop(_, _, _, _)
PeptideLoop(st, sequence, i, startPos) ==
  IF i >= Len(sequence) THEN st
  ELSE PeptideLoop(PeptideStep(st, sequence[i + 1], i, startPos),
                   sequence, i + 1, startPos)

\* ---------------------------------------------------------------- strings
Str1(c) == <<c>>

\* index of the first occurrence of character sep in s, 0 when there is none
RECURSIVE IndexOf(_, _, _)
IndexOf(s, sep, from) ==
  IF from > Len(s) THEN 0
  ELSE IF s[from] = sep THEN from
  ELSE IndexOf(s, sep, from + 1)

\* String.prototype.split(sep) for a one-character separator:
\* "" gives [""], "a;" gives ["a", ""]
RECURSIVE Split(_, _)
Split(s, sep) ==
  LET i == IndexOf(s, sep, 1)
  IN IF i = 0 THEN <<s>>
     ELSE <<SubSeq(s, 1, i - 1)>> \o Split(SubSeq(s, i + 1, Len(s)), sep)

\* getAlphaOnly from './common': the alphabetic prefix of the token
RECURSIVE getAlphaOnly(_)
getAlphaOnly(t) ==
  IF t = <<>> \/ Head(t) \notin Letters THEN <<>>
  ELSE <<Head(t)>> \o getAlphaOnly(Tail(t))

\* index of the first digit of t, 0 when t.match(/(\d+)/) is null
RECURSIVE FirstDigit(_, _)
FirstDigit(t, from) ==
  IF from > Len(t) THEN 0
  ELSE IF t[from] \in DigitChars THEN from
  ELSE FirstDigit(t, from + 1)

\* the digits of t from position from up to the first non-digit
RECURSIVE DigitRun(_, _)
DigitRun(t, from) ==
  IF from > Len(t) \/ t[from] \notin DigitChars THEN <<>>
  ELSE <<t[from]>> \o DigitRun(t, from + 1)

\* t.match(/(\d+)/)![0]: the first digit run of t (t has a digit)
MatchDigits(t) == DigitRun(t, FirstDigit(t, 1))

\* parseInt of a digit run
RECURSIVE parseInt(_)
parseInt(ds) ==
  IF ds = <<>> THEN 0
  ELSE parseInt(SubSeq(ds, 1, Len(ds) - 1)) * 10 + DigitVal(ds[Len(ds)])

\* ---------------------------------------------------------- addCrossLinks
\* mutant of ResidueAt: the residue number used as a 0-based index
ResidueAt_ZeroBased(peps, chain, num) ==
  IF chain \in DOMAIN peps /\ num >= 0 /\ num < Len(peps[chain])
  THEN peps[chain][num + 1]
  ELSE 0

\* this.peptides.get(chain)?.[num - 1]: the Residue id, 0 for undefined
ResidueAt(peps, chain, num) ==
  IF chain \in DOMAIN peps /\ num - 1 >= 0 /\ num - 1 < Len(peps[chain])
  THEN peps[chain][num]
  ELSE 0

\* NOT (acidChar !== residue?.name)
NameMatches(h, acidChar, residue) ==
  residue # 0 /\ acidChar = Str1(h[residue].name)

\* Lines 115-127 for one clause: "throw" (a TypeError leaves the callback),
\* "skip" (one of the two returns) or "link" with the two resolved residues.
ResolveClause(h, peps, crossLink) ==
  LET acids == Split(crossLink, "-")
      acid1Locs == Split(acids[1], ":")
      Thrown == [kind |-> "throw", residue1 |-> 0, residue2 |-> 0]
      Skipped == [kind |-> "skip", residue1 |-> 0, residue2 |-> 0]
  IN IF Len(acid1Locs) < 2 \/ FirstDigit(acid1Locs[2], 1) = 0 THEN Thrown
     ELSE
       LET chain1 == acid1Locs[1]
           acid1Char == getAlphaOnly(acid1Locs[2])
           acid1Num == parseInt(MatchDigits(acid1Locs[2]))
           residue1 == ResidueAt(peps, chain1, acid1Num)
       IN IF ~NameMatches(h, acid1Char, residue1) THEN Skipped
          ELSE IF Len(acids) < 2 THEN Thrown
          ELSE
            LET acid2Locs == Split(acids[2], ":")
            IN IF Len(acid2Locs) < 2 \/ FirstDigit(acid2Locs[2], 1) = 0 THEN Thrown
               ELSE
                 LET chain2 == acid2Locs[1]
                     acid2Char == getAlphaOnly(acid2Locs[2])
                     acid2Num == parseInt(MatchDigits(acid2Locs[2]))
                     residue2 == ResidueAt(peps, chain2, acid2Num)
                 IN IF ~NameMatches(h, acid2Char, residue2) THEN Skipped
                    ELSE [kind |-> "link", residue1 |-> residue1,
                          residue2 |-> residue2]

\* mutant of LinkStep: the ball is handed over before its second socket
LinkStep_BallBeforeSocket(st, residue1, residue2) ==
  LET s1id == newID(st.heap)
      socket1 == Socket(residue1, socketRadius, socketLength, "tempMatrix1")
      h1 == Append(st.heap, socket1)
      s2id == newID(h1)
      socket2 == Socket(residue2, socketRadius, socketLength, "tempMatrix1")
      h2 == Append(h1, socket2)
      bid == newID(h2)
      ball == Ball(s1id, s2id, ballRadius, "tempMatrix1")
      h3 == Append(h2, ball)
  IN [st EXCEPT
        !.heap = h3,
        !.three = @ \o <<Handed("addSocket", s1id, st.mats.tempMatrix1),
                         Handed("addBall", bid, st.mats.tempMatrix1),
                         Handed("addSocket", s2id, st.mats.tempMatrix1)>>,
        !.balls = Append(@, bid)]

\* Lines 129-135: the two Sockets and the Ball of one cross-link
LinkStep(st, residue1, residue2) ==
  LET s1id == newID(st.heap)
      socket1 == Socket(residue1, socketRadius, socketLength, "tempMatrix1")
      h1 == Append(st.heap, socket1)
      s2id == newID(h1)
      socket2 == Socket(residue2, socketRadius, socketLength, "tempMatrix1")
      h2 == Append(h1, socket2)
      bid == newID(h2)
      ball == Ball(s1id, s2id, ballRadius, "tempMatrix1")
      h3 == Append(h2, ball)
  IN [st EXCEPT
        !.heap = h3,
        !.three = @ \o <<Handed("addSocket", s1id, st.mats.tempMatrix1),
                         Handed("addSocket", s2id, st.mats.tempMatrix1),
                         Handed("addBall", bid, st.mats.tempMatrix1)>>,
        !.balls = Append(@, bid)]

\* crossLinks.forEach(..) from clause k on; a throw ends the whole call
RECURSIVE CrossLinkLoop(_, _, _, _)
CrossLinkLoop(st, peps, crossLinks, k) ==
  IF k > Len(crossLinks) THEN st
  ELSE
    LET r == ResolveClause(st.heap, peps, crossLinks[k])
    IN CASE r.kind = "throw" -> [st EXCEPT !.threw = TRUE]
         [] r.kind = "skip" -> CrossLinkLoop(st, peps, crossLinks, k + 1)
         [] r.kind = "link" ->
              CrossLinkLoop(LinkStep(st, r.residue1, r.residue2),
                            peps, crossLinks, k + 1)

\* ----------------------------------------------------------------- inputs
Names == {<<"A">>, <<"B">>}
Symbols == {"A", "G"}

RECURSIVE SeqsUpTo(_, _)
SeqsUpTo(S, n) ==
  IF n = 0 THEN {<<>>}
  ELSE LET shorter == SeqsUpTo(S, n - 1)
       IN shorter \cup {Append(q, c) : q \in shorter, c \in S}

Sequences == SeqsUpTo(Symbols, MaxLen)
StartPoints == {Vec(0, 0, 0), Vec(5, 1, 2)}

Endpoint(chain, token) == chain \o <<":">> \o token
Clause(e1, e2) == e1 \o <<"-">> \o e2

ValidClause == Clause(Endpoint(<<"A">>, <<"A", "1">>), Endpoint(<<"B">>, <<"G", "2">>))

\* the clauses a specification string may start with
FirstClauses ==
  { ValidClause,
    Clause(Endpoint(<<"B">>, <<"G", "2">>), Endpoint(<<"A">>, <<"A", "1">>)),
    Clause(Endpoint(<<"A">>, <<"A", "1">>), Endpoint(<<"A">>, <<"G", "2">>)),
    Clause(Endpoint(<<"A">>, <<"G", "0">>), Endpoint(<<"B">>, <<"G", "2">>)),
    Clause(Endpoint(<<"A">>, <<"A", "1">>), Endpoint(<<"B">>, <<"G", "0">>)),
    Clause(Endpoint(<<"B">>, <<"A", "3">>), Endpoint(<<"A">>, <<"G", "1">>)),
    \* digits only
    Clause(Endpoint(<<"A">>, <<"A", "1">>), Endpoint(<<"B">>, <<"2">>)),
    \* token with no digit run
    Clause(Endpoint(<<"A">>, <<"A">>), Endpoint(<<"B">>, <<"G", "2">>)),
    \* endpoint without ':'
    Clause(<<"A">>, Endpoint(<<"B">>, <<"G", "2">>)),
    \* clause without '-'
    Endpoint(<<"A">>, <<"A", "1">>),
    \* empty clause
    <<>> }

\* the clauses that may follow: one that can resolve, one that is skipped
\* (index 0), one that fails to parse (token with no digit run)
LaterClauses ==
  { ValidClause,
    Clause(Endpoint(<<"A">>, <<"G", "0">>), Endpoint(<<"B">>, <<"G", "2">>)),
    Clause(Endpoint(<<"A">>, <<"A">>), Endpoint(<<"B">>, <<"G", "2">>)) }

RECURSIVE CrossLinkStrsOf(_)
CrossLinkStrsOf(n) ==
  IF n = 1 THEN FirstClauses
  ELSE LET shorter == CrossLinkStrsOf(n - 1)
       IN shorter \cup {s \o <<";">> \o c : s \in shorter, c \in LaterClauses}

CrossLinkStrs == CrossLinkStrsOf(MaxClauses)

\* ------------------------------------------------------------------ state
AllWorlds == 1..MaxWorlds

Snapshot == [peptides |-> peptides, balls |-> balls, threeWorld |-> threeWorld,
             heap |-> heap, mats |-> mats]

Call(op, w, name, sequence, startPos, crossLinkStr, threw, pre) ==
  [op |-> op, w |-> w, name |-> name, sequence |-> sequence,
   startPos |-> startPos, crossLinkStr |-> crossLinkStr, threw |-> threw,
   pre |-> pre]

Init ==
  /\ worlds = {}
  /\ peptides = [w \in AllWorlds |-> <<>>]
  /\ balls = [w \in AllWorlds |-> <<>>]
  /\ threeWorld = [w \in AllWorlds |-> <<>>]
  /\ heap = <<>>
  /\ mats = [tempMatrix1 |-> Identity, tempMatrix2 |-> Identity,
             tempMultiMatrix1 |-> Identity]
  /\ last = Call("none", 0, <<>>, <<>>, Vec(0, 0, 0), <<>>, FALSE,
                 [peptides |-> [w \in AllWorlds |-> <<>>],
                  balls |-> [w \in AllWorlds |-> <<>>],
                  threeWorld |-> [w \in AllWorlds |-> <<>>],
                  heap |-> <<>>,
                  mats |-> [tempMatrix1 |-> Identity, tempMatrix2 |-> Identity,
                            tempMultiMatrix1 |-> Identity]])
  /\ geom \in Geometries
  /\ steps = 0

\* mutant of MapSet: an existing key keeps its value
MapSet_FirstWins(m, k, v) ==
  [n \in DOMAIN m \cup {k} |-> IF n \in DOMAIN m THEN m[n] ELSE v]

\* Map.set: last write wins
MapSet(m, k, v) == [n \in DOMAIN m \cup {k} |-> IF n = k THEN v ELSE m[n]]

\* new DescWorld(threeWorld): empty peptides and balls, its own collaborator
Construct ==
  /\ steps < MaxSteps
  /\ Cardinality(worlds) < MaxWorlds
  /\ LET w == Cardinality(worlds) + 1
     IN /\ worlds' = worlds \cup {w}
        /\ last' = Call("new", w, <<>>, <<>>, Vec(0, 0, 0), <<>>, FALSE, Snapshot)
  /\ steps' = steps + 1
  /\ UNCHANGED <<peptides, balls, threeWorld, heap, mats, geom>>

addPeptide(w, name, sequence, startPos) ==
  /\ steps < MaxSteps
  /\ LET st0 == [heap |-> heap, mats |-> mats, three |-> threeWorld[w],
                 balls |-> balls[w], peptide |-> <<>>, prev |-> 0]
         st == PeptideLoop(st0, sequence, 0, startPos)
     IN /\ heap' = st.heap
        /\ mats' = st.mats
        /\ threeWorld' = [threeWorld EXCEPT ![w] = st.three]
        /\ balls' = [balls EXCEPT ![w] = st.balls]
        /\ peptides' = [peptides EXCEPT ![w] = MapSet(@, name, st.peptide)]
  /\ last' = Call("addPeptide", w, name, sequence, startPos, <<>>, FALSE, Snapshot)
  /\ steps' = steps + 1
  /\ UNCHANGED <<worlds, geom>>

addCrossLinks(w, crossLinkStr) ==
  /\ steps < MaxSteps
  /\ LET crossLinks == Split(crossLinkStr, ";")
         st0 == [heap |-> heap, mats |-> mats, three |-> threeWorld[w],
                 balls |-> balls[w], threw |-> FALSE]
         st == CrossLinkLoop(st0, peptides[w], crossLinks, 1)
     IN /\ heap' = st.heap
        /\ threeWorld' = [threeWorld EXCEPT ![w] = st.three]
        /\ balls' = [balls EXCEPT ![w] = st.balls]
        /\ last' = Call("addCrossLinks", w, <<>>, <<>>, Vec(0, 0, 0), crossLinkStr,
                        st.threw, Snapshot)
  /\ steps' = steps + 1
  /\ UNCHANGED <<worlds, peptides, mats, geom>>

Next ==
  \/ Construct
  \/ \E w \in worlds, name \in Names, sequence \in Sequences, startPos \in StartPoints :
       addPeptide(w, name, sequence, startPos)
  \/ \E w \in worlds, crossLinkStr \in CrossLinkStrs : addCrossLinks(w, crossLinkStr)

Spec == Init /\ [][Next]_vars

\* ======================================================== claim vocabulary
\* the transform object id holds in heap h with scratch matrices m
TransformOf(h, m, id) == m[h[id].matrix]

\* what the last call handed to its collaborator, in order
NewCalls ==
  SubSeq(threeWorld[last.w], Len(last.pre.threeWorld[last.w]) + 1,
         Len(threeWorld[last.w]))

\* what the last call appended to its ball list
NewBalls ==
  SubSeq(balls[last.w], Len(last.pre.balls[last.w]) + 1, Len(balls[last.w]))

CountCalls(log, call) == Cardinality({k \in DOMAIN log : log[k].call = call})

Max0(n) == IF n > 0 THEN n ELSE 0

\* the last call only appended to the log and ball list of its instance
AppendedOnly ==
  /\ Len(threeWorld[last.w]) >= Len(last.pre.threeWorld[last.w])
  /\ SubSeq(threeWorld[last.w], 1, Len(last.pre.threeWorld[last.w]))
       = last.pre.threeWorld[last.w]
  /\ Len(balls[last.w]) >= Len(last.pre.balls[last.w])
  /\ SubSeq(balls[last.w], 1, Len(last.pre.balls[last.w])) = last.pre.balls[last.w]

Spacing == 2 * (socketLength + residueRadius + ballRadius)

\* ---------------------------------------------------------------------- C1
\* C1: one addPeptide call on a sequence of length n hands the collaborator
\* exactly n residues, 2*max(n-1,0) sockets and max(n-1,0) balls, appends
\* exactly max(n-1,0) balls to the ball list, and leaves under the name a
\* chain of exactly n residues carrying the sequence's symbols in order.
C1_PeptideCounts ==
  last.op = "addPeptide" =>
    LET n == Len(last.sequence)
        chain == peptides[last.w][last.name]
    IN /\ AppendedOnly
       /\ CountCalls(NewCalls, "addResidue") = n
       /\ CountCalls(NewCalls, "addSocket") = 2 * Max0(n - 1)
       /\ CountCalls(NewCalls, "addBall") = Max0(n - 1)
       /\ Len(NewCalls) = n + 3 * Max0(n - 1)
       /\ Len(NewBalls) = Max0(n - 1)
       /\ \A k \in DOMAIN NewBalls : heap[NewBalls[k]].kind = "Ball"
       /\ Len(chain) = n
       /\ \A i \in 1..n : /\ heap[chain[i]].kind = "Residue"
                          /\ heap[chain[i]].name = last.sequence[i]

C1_Witness ==
  /\ last.op = "addPeptide"
  /\ Len(last.sequence) >= 2
  /\ Len(NewBalls) = Len(last.sequence) - 1

\* ---------------------------------------------------------------------- C5
\* C5: in the chain built by an addPeptide call from startPos, the residue at
\* 0-based index i sits at x = startPos.x + 2*(socketLength+residueRadius+
\* ballRadius)*i with startPos's y and z; consecutive residues differ only in
\* x, by exactly that constant, and x strictly increases along the chain.
C5_ResidueSpacing ==
  last.op = "addPeptide" =>
    LET chain == peptides[last.w][last.name]
        P(i) == heap[chain[i]].pos
    IN /\ \A i \in DOMAIN chain :
            /\ P(i).x = last.startPos.x + Spacing * (i - 1)
            /\ P(i).y = last.startPos.y
            /\ P(i).z = last.startPos.z
       /\ \A i \in DOMAIN chain : i > 1 =>
            /\ P(i).x - P(i - 1).x = Spacing
            /\ P(i).x > P(i - 1).x
            /\ P(i).y = P(i - 1).y
            /\ P(i).z = P(i - 1).z

C5_Witness ==
  /\ last.op = "addPeptide"
  /\ Len(last.sequence) >= 2
  /\ last.startPos.x # 0
  /\ heap[peptides[last.w][last.name][2]].pos.x = last.startPos.x + Spacing

\* --------------------------------------------------------- cross-link form
DigitOf(n) == CASE n = 0 -> "0" [] n = 1 -> "1" [] n = 2 -> "2" [] n = 3 -> "3"
                [] n = 4 -> "4" [] n = 5 -> "5"

Indices == 0..5

\* the clause "c1:s1n1-c2:s2n2"
FormClause(c1, s1, n1, c2, s2, n2) ==
  Clause(Endpoint(c1, <<s1, DigitOf(n1)>>), Endpoint(c2, <<s2, DigitOf(n2)>>))

\* chain c of registry peps exists and has a residue at 1-based index n
HasResidue(peps, c, n) == c \in DOMAIN peps /\ n \in 1..Len(peps[c])

\* ... whose symbol is s
HasSymbol(peps, c, n, s) == HasResidue(peps, c, n) /\ heap[peps[c][n]].name = s

\* the last call handed over exactly one cross-link joining residues r1 and r2:
\* two sockets, then the ball that joins them, the ball also on the ball list
OneLink(calls, newBalls, r1, r2) ==
  /\ Len(calls) = 3
  /\ calls[1].call = "addSocket" /\ heap[calls[1].id].kind = "Socket"
  /\ calls[2].call = "addSocket" /\ heap[calls[2].id].kind = "Socket"
  /\ calls[3].call = "addBall" /\ heap[calls[3].id].kind = "Ball"
  /\ heap[calls[1].id].residueId = r1
  /\ heap[calls[2].id].residueId = r2
  /\ heap[calls[3].id].socket1Id = calls[1].id
  /\ heap[calls[3].id].socket2Id = calls[2].id
  /\ newBalls = <<calls[3].id>>

\* ---------------------------------------------------------------------- C2
\* C2: for a clause "c1:s1n1-c2:s2n2", addCrossLinks creates exactly one more
\* ball and two more sockets if and only if chain c1 has a residue at index
\* n1 with symbol s1 and chain c2 has a residue at index n2 with symbol s2;
\* in every other case it creates nothing; no exception escapes either way.
C2_LinkIff ==
  last.op = "addCrossLinks" =>
    \A c1 \in Names, c2 \in Names, s1 \in Symbols, s2 \in Symbols,
       n1 \in Indices, n2 \in Indices :
      last.crossLinkStr = FormClause(c1, s1, n1, c2, s2, n2) =>
        LET peps == last.pre.peptides[last.w]
        IN /\ ~last.threw
           /\ AppendedOnly
           /\ peptides = last.pre.peptides
           /\ IF HasSymbol(peps, c1, n1, s1) /\ HasSymbol(peps, c2, n2, s2)
              THEN /\ OneLink(NewCalls, NewBalls, peps[c1][n1], peps[c2][n2])
                   /\ Len(heap) = Len(last.pre.heap) + 3
              ELSE /\ NewCalls = <<>>
                   /\ NewBalls = <<>>
                   /\ heap = last.pre.heap

C2_Witness ==
  /\ last.op = "addCrossLinks"
  /\ last.crossLinkStr = FormClause(<<"A">>, "A", 1, <<"B">>, "G", 2)
  /\ Len(NewCalls) = 3
  /\ heap[NewCalls[3].id].kind = "Ball"

\* ---------------------------------------------------------------------- C3
\* C3: in a string of ';'-separated clauses an invalid clause, validation
\* miss or parse failure alike, never prevents a later valid clause from
\* creating its two sockets and its ball.
C3_ClausesIndependent ==
  last.op = "addCrossLinks" =>
    \A c \in FirstClauses :
      LET peps == last.pre.peptides[last.w]
      IN ( /\ c # ValidClause
           /\ last.crossLinkStr = c \o <<";">> \o ValidClause
           /\ HasSymbol(peps, <<"A">>, 1, "A")
           /\ HasSymbol(peps, <<"B">>, 2, "G") )
         => /\ Len(NewCalls) >= 3
            /\ OneLink(SubSeq(NewCalls, Len(NewCalls) - 2, Len(NewCalls)),
                       SubSeq(NewBalls, Len(NewBalls), Len(NewBalls)),
                       peps[<<"A">>][1], peps[<<"B">>][2])

\* ---------------------------------------------------------------------- C4
\* C4: an endpoint whose token is digits only is resolved on chain name and
\* index alone: "A:A1-B:2" creates its joint whenever chain A residue 1 has
\* symbol A and chain B has a residue at index 2, whatever its symbol.
C4_DigitsOnlyUnchecked ==
  last.op = "addCrossLinks" =>
    LET peps == last.pre.peptides[last.w]
    IN ( /\ last.crossLinkStr
              = Clause(Endpoint(<<"A">>, <<"A", "1">>), Endpoint(<<"B">>, <<"2">>))
         /\ HasSymbol(peps, <<"A">>, 1, "A")
         /\ HasResidue(peps, <<"B">>, 2) )
       => OneLink(NewCalls, NewBalls, peps[<<"A">>][1], peps[<<"B">>][2])

\* ---------------------------------------------------------------------- C6
\* C6: once a Residue, Socket or Ball has been created and handed over, no
\* later step changes any of its fields, its transform included: the
\* transform a socket or ball holds is the one it was created with.
C6_NeverMutated ==
  /\ \A id \in DOMAIN last.pre.heap :
       /\ heap[id] = last.pre.heap[id]
       /\ heap[id].kind # "Residue" =>
            TransformOf(heap, mats, id)
              = TransformOf(last.pre.heap, last.pre.mats, id)
  /\ \A w \in AllWorlds : \A k \in DOMAIN threeWorld[w] :
       threeWorld[w][k].call # "addResidue" =>
         TransformOf(heap, mats, threeWorld[w][k].id) = threeWorld[w][k].at

\* ---------------------------------------------------------------------- C7
\* C7: in every reachable state every ball handed to a collaborator or held
\* in a ball list references two sockets handed to that collaborator before
\* it, every socket handed over references a residue handed over before it,
\* and every socket handed over is joined by a ball handed over after it.
HandedBefore(log, k, call, id) ==
  \E j \in 1..(k - 1) : log[j].call = call /\ log[j].id = id

C7_ReferentialIntegrity ==
  \A w \in AllWorlds :
    LET log == threeWorld[w]
    IN /\ \A k \in DOMAIN log :
            /\ log[k].call = "addBall" =>
                 /\ heap[log[k].id].kind = "Ball"
                 /\ HandedBefore(log, k, "addSocket", heap[log[k].id].socket1Id)
                 /\ HandedBefore(log, k, "addSocket", heap[log[k].id].socket2Id)
                 /\ heap[log[k].id].socket1Id # heap[log[k].id].socket2Id
                 /\ \E b \in DOMAIN balls[w] : balls[w][b] = log[k].id
            /\ log[k].call = "addSocket" =>
                 /\ heap[log[k].id].kind = "Socket"
                 /\ HandedBefore(log, k, "addResidue", heap[log[k].id].residueId)
                 /\ \E j \in DOMAIN log :
                      /\ j > k
                      /\ log[j].call = "addBall"
                      /\ log[k].id \in {heap[log[j].id].socket1Id,
                                        heap[log[j].id].socket2Id}
            /\ log[k].call = "addResidue" => heap[log[k].id].kind = "Residue"
       /\ \A b \in DOMAIN balls[w] :
            \E k \in DOMAIN log : log[k].call = "addBall" /\ log[k].id = balls[w][b]

\* a call made a cross-link on a chain that had overwritten another, and then
\* ended in a failing clause
C7_Witness ==
  /\ last.op = "addCrossLinks"
  /\ last.threw
  /\ Len(NewCalls) = 3
  /\ heap[NewCalls[3].id].kind = "Ball"
  /\ \E k \in DOMAIN threeWorld[last.w] :
       /\ threeWorld[last.w][k].call = "addResidue"
       /\ \A c \in DOMAIN peptides[last.w] : \A i \in DOMAIN peptides[last.w][c] :
            peptides[last.w][c][i] # threeWorld[last.w][k].id

\* ---------------------------------------------------------------------- C8
\* C8: chain registration is last-write-wins: after addPeptide under a name
\* the registry holds under it exactly the residues of that call (none of an
\* earlier call's), chains under other names are unchanged, and a later
\* cross-link resolves its endpoints in the chains now registered only.
InRegistry(w, id) ==
  \E c \in DOMAIN peptides[w] : \E i \in DOMAIN peptides[w][c] :
    peptides[w][c][i] = id

C8_LastWriteWins ==
  /\ last.op = "addPeptide" =>
       LET pre == last.pre.peptides[last.w]
           chain == peptides[last.w][last.name]
       IN /\ DOMAIN peptides[last.w] = DOMAIN pre \cup {last.name}
          /\ \A c \in DOMAIN pre : c # last.name => peptides[last.w][c] = pre[c]
          /\ Len(chain) = Len(last.sequence)
          /\ \A i \in DOMAIN chain :
               /\ chain[i] \notin DOMAIN last.pre.heap
               /\ heap[chain[i]].name = last.sequence[i]
  /\ last.op = "addCrossLinks" =>
       /\ peptides = last.pre.peptides
       /\ \A k \in DOMAIN NewCalls :
            NewCalls[k].call = "addSocket" =>
              InRegistry(last.w, heap[NewCalls[k].id].residueId)

\* a chain was overwritten, and a cross-link then resolved in its replacement
C8_Witness ==
  /\ last.op = "addCrossLinks"
  /\ ~last.threw
  /\ Len(NewCalls) = 3
  /\ \E k \in DOMAIN threeWorld[last.w] :
       /\ threeWorld[last.w][k].call = "addResidue"
       /\ ~InRegistry(last.w, threeWorld[last.w][k].id)

\* ---------------------------------------------------------------------- C9
\* C9: two DescWorld instances are independent: a call on one instance leaves
\* unchanged everything the other holds or has handed to its collaborator,
\* the fields and transforms of its residues, sockets and balls included.
C9_InstancesIndependent ==
  last.op \in {"addPeptide", "addCrossLinks"} =>
    \A w \in worlds \ {last.w} :
      /\ peptides[w] = last.pre.peptides[w]
      /\ balls[w] = last.pre.balls[w]
      /\ threeWorld[w] = last.pre.threeWorld[w]
      /\ \A k \in DOMAIN threeWorld[w] :
           LET id == threeWorld[w][k].id
           IN /\ heap[id] = last.pre.heap[id]
              /\ heap[id].kind # "Residue" =>
                   TransformOf(heap, mats, id)
                     = TransformOf(last.pre.heap, last.pre.mats, id)

\* --------------------------------------------------------------------- C10
\* C10: for consecutive residues p and c laid out by addPeptide, the ball of
\* their connection is at the midpoint m = (p.x + c.x)/2, the socket owned by
\* p at p.x + residueRadius + socketLength/2, the socket owned by c at
\* c.x - residueRadius - socketLength/2, all with the start point's y and z,
\* and the two sockets hold these two different positions.
C10_SymmetricPlacement ==
  last.op = "addPeptide" =>
    LET chain == peptides[last.w][last.name]
    IN \A i \in DOMAIN chain : i > 1 =>
         LET p == heap[chain[i - 1]].pos
             c == heap[chain[i]].pos
             b == NewBalls[i - 1]
             tb == TransformOf(heap, mats, b).pos
             t1 == TransformOf(heap, mats, heap[b].socket1Id).pos
             t2 == TransformOf(heap, mats, heap[b].socket2Id).pos
         IN /\ heap[heap[b].socket1Id].residueId = chain[i - 1]
            /\ heap[heap[b].socket2Id].residueId = chain[i]
            /\ 2 * tb.x = p.x + c.x
            /\ t1.x = p.x + residueRadius + socketLength \div 2
            /\ t2.x = c.x - residueRadius - socketLength \div 2
            /\ t1.x - p.x = c.x - t2.x
            /\ 2 * (tb.x - t1.x) = 2 * (t2.x - tb.x)
            /\ \A t \in {tb, t1, t2} : t.y = last.startPos.y /\ t.z = last.startPos.z
            /\ t1 # t2

====
